---- MODULE Spec2Model ----
(***************************************************************************)
(* The scoring pipeline of ai_factor in its two implementations:           *)
(*   "ai_scorer"    - src/ai_scorer.py (get_llm_score_with_retry, main)    *)
(*   "stock_scorer" - src/stock_scorer.py, src/llm_service.py,             *)
(*                    src/data_processor.py (StockScorer.run)              *)
(* and load_and_clean_data of src/calculate_score_distance.py.             *)
(* Texts are sequences of characters, stock codes are sequences of digits, *)
(* factor values are counted in tenths (10 is 1.0).                        *)
(***************************************************************************)
EXTENDS Integers, Sequences, FiniteSets, TLC

VARIABLES
    variant,              \* which implementation runs
    dir,                  \* the input directory: the target files, in listing order
    storeExists,          \* os.path.exists(OUTPUT_CSV_PATH)
    store,                \* the lines of the results CSV
    failLogExists,        \* os.path.exists(FAILED_JSON_PATH)
    failLog,              \* the entries of the failure JSON document
    run,                  \* number of the run in progress
    pc,                   \* position of the orchestrator
    processed_codes,      \* read back from the store at the start of the run
    files_to_process,     \* indices into dir, in order
    file_index,           \* 0-based position in files_to_process
    all_data_to_process,  \* the records of the file in flight
    pool,                 \* per record: the state of its future
    successful_results,   \* stock_scorer: rows collected so far for the file
    failed_tasks,         \* stock_scorer: failures collected so far for the file
    all_failed_tasks,     \* failures of the run so far
    interrupted,          \* a KeyboardInterrupt was raised outside the pause
    opened,               \* history: files_to_process positions handed to the loader
    pauses,               \* history: 1-based positions after which the run paused
    stopped,              \* history: "" | "quit" | "interrupt"
    inflight,             \* history: the file (index in dir) whose scores were in
                          \* memory only when the last run was aborted, else 0
    arg,                  \* the argument of a function of the analysis scripts
    ret                   \* what that function returned

vars == <<variant, dir, storeExists, store, failLogExists, failLog, run, pc,
          processed_codes, files_to_process, file_index, all_data_to_process,
          pool, successful_results, failed_tasks, all_failed_tasks, interrupted,
          opened, pauses, stopped, inflight, arg, ret>>

---------------------------------------------------------------------------
\* Program constants

MAX_RETRIES == 3

PauseEvery == 5

LoadIndex == 10

\* Bounds of the model

MAX_CONCURRENT_REQUESTS == 2

MaxFiles == 6

MaxScored == 2

MaxRuns == 2

MaxRerun == 1

Variants == {"ai_scorer", "stock_scorer"}

---------------------------------------------------------------------------
\* Text

RECURSIVE LStrip(_)
LStrip(s) == IF s = <<>> THEN s
             ELSE IF Head(s) = " " THEN LStrip(Tail(s)) ELSE s

RECURSIVE RStrip(_)
RStrip(s) == IF s = <<>> THEN s
             ELSE IF s[Len(s)] = " " THEN RStrip(SubSeq(s, 1, Len(s) - 1)) ELSE s

\* str.strip()
Strip(s) == RStrip(LStrip(s))

---------------------------------------------------------------------------
\* The collaborator's replies and the scorer's results

FactorFields == {"Fundamental_Positive", "Impact_Cycle_Length", "Timeliness_Weight",
                 "Information_Certainty", "Information_Relevance"}

\* A reply text, by what json.loads makes of it: json = it parses; object = it
\* parses to a JSON object; keys = the object's keys; tenths = the value every
\* key holds, in tenths.
NoReply == [json |-> FALSE, object |-> FALSE, keys |-> {}, tenths |-> 0]

ReplyGarbage == [json |-> FALSE, object |-> FALSE, keys |-> {"text"}, tenths |-> 0]

ReplyValid == [json |-> TRUE, object |-> TRUE, keys |-> FactorFields, tenths |-> 5]

ReplyMissingKey == [json |-> TRUE, object |-> TRUE,
                    keys |-> FactorFields \ {"Timeliness_Weight"}, tenths |-> 5]

ReplyOutOfRange == [json |-> TRUE, object |-> TRUE, keys |-> FactorFields, tenths |-> 15]

\* a reply that is JSON but no object, such as 0.5
ReplyScalar == [json |-> TRUE, object |-> FALSE, keys |-> {}, tenths |-> 5]

Replies == {ReplyGarbage, ReplyValid, ReplyMissingKey, ReplyOutOfRange, ReplyScalar}

\* What one collaborator call ends in: a reply, or a raised exception.
Outcomes == [kind : {"reply"}, reply : Replies]
            \cup [kind : {"RateLimitError", "timeout", "error"}, reply : {NoReply}]

NoResult == [status |-> "none", error |-> "", content |-> NoReply, data |-> NoReply]

Success(data) == [status |-> "success", error |-> "", content |-> NoReply, data |-> data]

Failed(error, content) ==
    [status |-> "failed", error |-> error, content |-> content, data |-> NoReply]

Skipped == [status |-> "skipped", error |-> "Empty content", content |-> NoReply,
            data |-> NoReply]

\* json.loads: TRUE when the text parses (surrounding whitespace never matters).
json_loads(reply) == reply.json

\* One pass of a retry loop: return a result, or sleep and go round again.
Return(result) == [ret |-> TRUE, result |-> result]

SleepAndRetry == [ret |-> FALSE, result |-> NoResult]

---------------------------------------------------------------------------
\* Records, JSON values and input files

NoTask == [id |-> 0, stock_code |-> <<>>, title |-> <<>>, content |-> <<>>]

\* A parsed JSON value: an object (one record), an array of values, or None.
Obj(task) == [type |-> "object", rec |-> task, items |-> <<>>]

Arr(items) == [type |-> "array", rec |-> NoTask, items |-> items]

None == [type |-> "none", rec |-> NoTask, items |-> <<>>]

\* `not x` of Python for a loaded value
Falsy(v) == v.type = "none" \/ (v.type = "array" /\ v.items = <<>>)

\* ai_scorer: the empty-content guard looks at title + " " + content
EmptyContent_ai(task_item) ==
    Strip(task_item.title \o <<" ">> \o task_item.content) = <<>>

\* LLMService: the empty-content guard looks at content alone
EmptyContent_llm(task_item) == Strip(task_item.content) = <<>>

EmptyContent(v, task_item) ==
    IF v = "ai_scorer" THEN EmptyContent_ai(task_item) ELSE EmptyContent_llm(task_item)

\* ai_scorer.get_llm_score_with_retry: one pass of `for attempt in range(MAX_RETRIES)`
get_llm_score_with_retry(outcome) ==
    CASE outcome.kind = "reply" ->
            IF json_loads(outcome.reply)
            THEN Return(Success(outcome.reply))
            ELSE Return(Failed("JSONDecodeError", outcome.reply))
      [] outcome.kind = "RateLimitError" -> SleepAndRetry
      [] outcome.kind = "timeout" -> SleepAndRetry
      [] OTHER -> Return(Failed("str(e)", NoReply))

\* get_score_with_retry with a parse failure counted against the retry budget
\* instead of returned
get_score_with_retry_RetriesParse(outcome) ==
    IF outcome.kind = "reply" /\ json_loads(outcome.reply)
    THEN Return(Success(outcome.reply))
    ELSE SleepAndRetry

\* LLMService.get_score_with_retry: one pass of `for attempt in range(MAX_RETRIES)`
get_score_with_retry(outcome) ==
    IF outcome.kind = "reply"
    THEN IF json_loads(outcome.reply)
         THEN Return(Success(outcome.reply))
         ELSE IF json_loads(outcome.reply) /\ FactorFields \subseteq outcome.reply.keys
              THEN Return(Success(outcome.reply))
              ELSE Return(Failed("ParsingError", outcome.reply))
    ELSE SleepAndRetry

LoopPass(v, outcome) ==
    IF v = "ai_scorer" THEN get_llm_score_with_retry(outcome)
    ELSE get_score_with_retry(outcome)

\* the return after the loop
MaxRetriesExceeded == Failed("Max retries exceeded", NoReply)

\* a worker whose function raised: future.result() re-raises
Raised == [status |-> "raised", error |-> "AttributeError", content |-> NoReply,
           data |-> NoReply]

---------------------------------------------------------------------------
\* Stock codes, the results CSV and its read-back

RECURSIVE StrToInt(_)
StrToInt(s) == IF s = <<>> THEN 0
               ELSE 10 * StrToInt(SubSeq(s, 1, Len(s) - 1)) + s[Len(s)]

RECURSIVE IntToStr(_)
IntToStr(n) == IF n < 10 THEN <<n>> ELSE IntToStr(n \div 10) \o <<n % 10>>

IsNumeric(s) == s # <<>> /\ \A i \in 1..Len(s) : s[i] \in 0..9

Header == [kind |-> "header", id |-> 0, stock_code |-> <<>>, data |-> NoReply]

\* flat_result = {"id", "stock_code", "pub_time", **result["data"]}
FlatResult(item, result) ==
    [kind |-> "row", id |-> item.rec.id, stock_code |-> item.rec.stock_code,
     data |-> result.data]

DataRows(lines) == SelectSeq(lines, LAMBDA l : l.kind = "row")

\* pd.read_csv(...)["stock_code"].astype(str).unique(): a column holding only
\* digit strings is read as integers, and str() of an integer has no leading zeros
ReadStockCodes(lines) ==
    LET col == {DataRows(lines)[i].stock_code : i \in 1..Len(DataRows(lines))}
    IN IF \A c \in col : IsNumeric(c)
       THEN {IntToStr(StrToInt(c)) : c \in col}
       ELSE col

load_processed_codes(exists, lines) ==
    IF exists THEN ReadStockCodes(lines) ELSE {}

\* save_results that writes nothing
save_results_Drops(exists, lines, results) == lines

\* save_results that writes the header at every call
save_results_AlwaysHeader(exists, lines, results) == lines \o <<Header>> \o results

\* df_new.to_csv(mode="a", header=not file_exists)
save_results(exists, lines, results) ==
    lines \o (IF exists THEN <<>> ELSE <<Header>>) \o results

\* ai_scorer.load_data_from_json_file: json.loads(raw_content)
load_data_ai(content) ==
    IF content.kind = "json" THEN content.json ELSE None

\* DataProcessor.load_data_from_json_file: json.loads(raw_content)[10]
load_data_dp(content) ==
    IF content.kind # "json" THEN None
    ELSE IF content.json.type = "array" /\ Len(content.json.items) > LoadIndex
         THEN content.json.items[LoadIndex + 1]
         ELSE None

load_data_from_json_file(v, content) ==
    IF v = "ai_scorer" THEN load_data_ai(content) ELSE load_data_dp(content)

---------------------------------------------------------------------------
\* The worker pool of one file

NoOutcome == [kind |-> "", reply |-> NoReply]

\* The future of one record. calls, sleeps, transient and last are history: the
\* collaborator calls made, the retry sleeps taken, how many calls ended in a
\* rate limit or a timeout, and what the last call ended in.
NewFuture == [st |-> "queued", attempt |-> 0, calls |-> 0, sleeps |-> 0,
              transient |-> 0, last |-> NoOutcome, result |-> NoResult]

Tasks == 1..Len(pool)

\* Running of a pool that keeps no count of its busy workers
Running_Uncounted == {}

Running == {i \in Tasks : pool[i].st = "running"}

\* PoolDrained of an orchestrator that does not wait for its workers
PoolDrained_NoWait == TRUE

PoolDrained == \A i \in Tasks : pool[i].st \in {"done", "cancelled"}

ExceptionDetails == [status |-> "exception", error |-> "str(e)", content |-> NoReply,
                     data |-> NoReply]

FailedEntry(item, details) == [id |-> item.rec.id, error_details |-> details]

\* CollectSuccess that takes the identity of the row from the first record of the
\* file instead of the record of the future
CollectSuccess_FirstItem(item, result, rows) ==
    IF result.status = "success" /\ result.data.object
    THEN Append(rows, FlatResult(all_data_to_process[1], result))
    ELSE rows

\* StockScorer.process_stock_file, the body of `for future in as_completed(...)`:
\* what the lists are after the future of `item` completed with `result`
CollectSuccess(item, result, rows) ==
    IF result.status = "success" /\ result.data.object
    THEN Append(rows, FlatResult(item, result))
    ELSE rows

CollectFailed(item, result, fails) ==
    CASE result.status = "failed" -> Append(fails, FailedEntry(item, result))
      [] result.status = "raised" -> Append(fails, FailedEntry(item, ExceptionDetails))
      [] result.status = "success" /\ ~result.data.object ->
            Append(fails, FailedEntry(item, ExceptionDetails))
      [] OTHER -> fails

\* A future completes. stock_scorer's main thread takes it from as_completed at
\* once, unless a KeyboardInterrupt already took it out of that loop.
Complete(i, fut) ==
    /\ pool' = [pool EXCEPT ![i] = fut]
    /\ IF variant = "stock_scorer" /\ ~interrupted
       THEN /\ successful_results' =
                 CollectSuccess(all_data_to_process[i], fut.result, successful_results)
            /\ failed_tasks' =
                 CollectFailed(all_data_to_process[i], fut.result, failed_tasks)
       ELSE UNCHANGED <<successful_results, failed_tasks>>

\* A free worker thread takes the oldest queued task and runs the function up to
\* its retry loop: the empty-content guard.
WorkerStart(i) ==
    /\ pc = "score"
    /\ i \in Tasks
    /\ pool[i].st = "queued"
    /\ \A j \in 1..(i - 1) : pool[j].st # "queued"
    /\ Cardinality(Running) < MAX_CONCURRENT_REQUESTS
    /\ IF all_data_to_process[i].type # "object"
       THEN Complete(i, [pool[i] EXCEPT !.st = "done", !.result = Raised])
       ELSE IF EmptyContent(variant, all_data_to_process[i].rec)
            THEN Complete(i, [pool[i] EXCEPT !.st = "done", !.result = Skipped])
            ELSE /\ pool' = [pool EXCEPT ![i].st = "running"]
                 /\ UNCHANGED <<successful_results, failed_tasks>>
    /\ UNCHANGED <<inflight, arg, ret, variant, dir, storeExists, store, failLogExists, failLog, run, pc,
                   processed_codes, files_to_process, file_index, all_data_to_process,
                   all_failed_tasks, interrupted, opened, pauses, stopped>>

\* What the future of a running task is after one more pass of the retry loop
\* that met `outcome`.
Transient(kind) == kind \in {"RateLimitError", "timeout"}

AfterPass(v, fut, outcome) ==
    LET r == LoopPass(v, outcome)
        called == [fut EXCEPT !.calls = @ + 1, !.last = outcome,
                              !.transient = IF Transient(outcome.kind) THEN @ + 1 ELSE @]
    IN IF r.ret
       THEN [called EXCEPT !.st = "done", !.result = r.result]
       ELSE IF fut.attempt + 1 = MAX_RETRIES
            THEN [called EXCEPT !.st = "done", !.attempt = @ + 1, !.sleeps = @ + 1,
                                !.result = MaxRetriesExceeded]
            ELSE [called EXCEPT !.attempt = @ + 1, !.sleeps = @ + 1]

\* One pass of the retry loop of a running task: one collaborator call.
WorkerAttempt(i) ==
    /\ pc = "score"
    /\ i \in Tasks
    /\ pool[i].st = "running"
    /\ \E outcome \in Outcomes :
         LET fut == AfterPass(variant, pool[i], outcome)
         IN IF fut.st = "done"
            THEN Complete(i, fut)
            ELSE /\ pool' = [pool EXCEPT ![i] = fut]
                 /\ UNCHANGED <<successful_results, failed_tasks>>
    /\ UNCHANGED <<inflight, arg, ret, variant, dir, storeExists, store, failLogExists, failLog, run, pc,
                   processed_codes, files_to_process, file_index, all_data_to_process,
                   all_failed_tasks, interrupted, opened, pauses, stopped>>

---------------------------------------------------------------------------
\* The orchestrator: ai_scorer.main and StockScorer.run

\* TARGET_STOCK_CODES_SET: every code of the model's directory but 99
Targets == {c \in [1..2 -> 0..9] : c # <<9, 9>>}

Indices(n) == [i \in 1..n |-> i]

CurrentFile == dir[files_to_process[file_index + 1]]

\* the next iteration of `for file_index, file_path in enumerate(files_to_process)`,
\* or the end of the loop
Advance ==
    IF file_index + 1 < Len(files_to_process)
    THEN /\ pc' = "load"
         /\ file_index' = file_index + 1
    ELSE /\ pc' = "flush"
         /\ UNCHANGED file_index

\* the files of the directory that are on the allow-list
TargetFiles == SelectSeq(Indices(Len(dir)), LAMBDA i : dir[i].code \in Targets)

\* Unprocessed that takes a file once begun for processed
Unprocessed_SkipsBegun(target_json_files, codes) ==
    SelectSeq(target_json_files, LAMBDA i : dir[i].code \notin codes /\ i # inflight)

\* Unprocessed with the membership test lost: every target file is kept
Unprocessed_KeepsAll(target_json_files, codes) == target_json_files

\* the resumption filter: the target files whose code is not among the codes read back
Unprocessed(target_json_files, codes) ==
    SelectSeq(target_json_files, LAMBDA i : dir[i].code \notin codes)

\* The start of a run up to the file loop: read the store back, list the directory,
\* keep the target files, drop the processed ones. Runs after the first are
\* followed for directories of at most MaxRerun target files.
StartRun ==
    /\ pc \in {"idle", "done", "aborted"}
    /\ run = 0 \/ (run < MaxRuns /\ Len(dir) <= MaxRerun + 1)
    /\ LET codes == load_processed_codes(storeExists, store)
           todo == Unprocessed(TargetFiles, codes)
       IN /\ processed_codes' = codes
          /\ files_to_process' = todo
          /\ pc' = IF todo = <<>> THEN "done" ELSE "load"
    /\ run' = run + 1
    /\ file_index' = 0
    /\ all_data_to_process' = <<>>
    /\ pool' = <<>>
    /\ successful_results' = <<>>
    /\ failed_tasks' = <<>>
    /\ all_failed_tasks' = <<>>
    /\ interrupted' = FALSE
    /\ opened' = {}
    /\ pauses' = {}
    /\ stopped' = ""
    /\ UNCHANGED <<inflight, arg, ret, variant, dir, storeExists, store, failLogExists, failLog>>

\* SkipFile with the failed load ending the file loop instead of the iteration
SkipFile_EndsLoop ==
    /\ pc' = "flush"
    /\ UNCHANGED file_index

\* After a load that gave nothing. ai_scorer: `continue`. stock_scorer:
\* process_stock_file returns two empty lists and the rest of the iteration runs.
SkipFile ==
    IF variant = "ai_scorer"
    THEN Advance
    ELSE /\ pc' = "score"
         /\ UNCHANGED file_index

\* Load the file of this iteration. In stock_scorer a loaded value that is no
\* list of records raises in the loop that adds stock_name.
LoadFile ==
    /\ pc = "load"
    /\ opened' = opened \cup {file_index + 1}
    /\ LET data == load_data_from_json_file(variant, CurrentFile.content)
       IN IF Falsy(data)
          THEN /\ all_data_to_process' = <<>>
               /\ pool' = <<>>
               /\ SkipFile
          ELSE IF variant = "stock_scorer"
                  /\ (data.type # "array"
                      \/ \E k \in 1..Len(data.items) : data.items[k].type # "object")
               THEN /\ pc' = "raise"
                    /\ UNCHANGED <<file_index, all_data_to_process, pool>>
               ELSE /\ all_data_to_process' = data.items
                    /\ pool' = [k \in 1..Len(data.items) |-> NewFuture]
                    /\ pc' = "score"
                    /\ UNCHANGED file_index
    /\ UNCHANGED <<inflight, arg, ret, variant, dir, storeExists, store, failLogExists, failLog, run,
                   processed_codes, files_to_process, successful_results, failed_tasks,
                   all_failed_tasks, interrupted, pauses, stopped>>

\* ai_scorer.main, `for i, result in enumerate(results)`: the lists of the first k results
RECURSIVE RowsUpTo(_)
RowsUpTo(k) ==
    IF k = 0 THEN <<>>
    ELSE CollectSuccess(all_data_to_process[k], pool[k].result, RowsUpTo(k - 1))

RECURSIVE FailsUpTo(_)
FailsUpTo(k) ==
    IF k = 0 THEN <<>>
    ELSE CollectFailed(all_data_to_process[k], pool[k].result, FailsUpTo(k - 1))

\* ai_scorer.main has no handler around the results: a raised future, or data that
\* is no mapping under **, ends main
CollectRaises ==
    /\ variant = "ai_scorer"
    /\ \E i \in Tasks : \/ pool[i].result.status = "raised"
                        \/ (pool[i].result.status = "success" /\ ~pool[i].result.data.object)

should_pause(index, n) == ((index + 1) % PauseEvery = 0) /\ ~(index = n - 1)

\* The pool is done: gather the file's lists (ai_scorer), append the successes to
\* the store, extend the run's failures, decide on the pause.
Persist ==
    /\ pc = "score"
    /\ PoolDrained
    /\ ~interrupted
    /\ IF CollectRaises
       THEN /\ pc' = "raise"
            /\ UNCHANGED <<storeExists, store, all_failed_tasks, file_index, pauses>>
       ELSE LET rows == IF variant = "ai_scorer" THEN RowsUpTo(Len(pool))
                        ELSE successful_results
                fails == IF variant = "ai_scorer" THEN FailsUpTo(Len(pool))
                         ELSE failed_tasks
            IN /\ store' = IF rows # <<>> THEN save_results(storeExists, store, rows)
                           ELSE store
               /\ storeExists' = (storeExists \/ rows # <<>>)
               /\ all_failed_tasks' = all_failed_tasks \o fails
               /\ IF should_pause(file_index, Len(files_to_process))
                  THEN /\ pc' = "pause"
                       /\ pauses' = pauses \cup {file_index + 1}
                       /\ UNCHANGED file_index
                  ELSE /\ Advance
                       /\ UNCHANGED pauses
    /\ all_data_to_process' = <<>>
    /\ pool' = <<>>
    /\ successful_results' = <<>>
    /\ failed_tasks' = <<>>
    /\ UNCHANGED <<inflight, arg, ret, variant, dir, failLogExists, failLog, run, processed_codes,
                   files_to_process, interrupted, opened, stopped>>

Lower(a) == IF a = "Q" THEN "q" ELSE a

\* Pause with the `break` after 'q' lost: the loop goes on
Pause_QuitGoesOn ==
    /\ pc = "pause"
    /\ \E answer \in {"", "q", "Q", "KeyboardInterrupt"} :
         /\ stopped' = IF answer = "KeyboardInterrupt" THEN "interrupt"
                       ELSE IF Lower(answer) = "q" THEN "quit" ELSE stopped
         /\ IF answer = "KeyboardInterrupt"
            THEN /\ pc' = "flush"
                 /\ UNCHANGED file_index
            ELSE Advance
    /\ UNCHANGED <<inflight, arg, ret, variant, dir, storeExists, store, failLogExists, failLog, run,
                   processed_codes, files_to_process, all_data_to_process, pool,
                   successful_results, failed_tasks, all_failed_tasks, interrupted,
                   opened, pauses>>

\* The operator answers input(), or presses Ctrl+C there.
Pause ==
    /\ pc = "pause"
    /\ \E answer \in {"", "q", "Q", "KeyboardInterrupt"} :
         IF answer = "KeyboardInterrupt"
         THEN /\ pc' = "flush"
              /\ stopped' = "interrupt"
              /\ UNCHANGED file_index
         ELSE IF Lower(answer) = "q"
              THEN /\ pc' = "flush"
                   /\ stopped' = "quit"
                   /\ UNCHANGED file_index
              ELSE /\ Advance
                   /\ UNCHANGED stopped
    /\ UNCHANGED <<inflight, arg, ret, variant, dir, storeExists, store, failLogExists, failLog, run,
                   processed_codes, files_to_process, all_data_to_process, pool,
                   successful_results, failed_tasks, all_failed_tasks, interrupted,
                   opened, pauses>>

\* json.dump(failed_tasks, open(path, "w")), only when there is a failure
save_failed_tasks(tasks) ==
    /\ failLog' = IF tasks # <<>> THEN tasks ELSE failLog
    /\ failLogExists' = (failLogExists \/ tasks # <<>>)

\* The code after the file loop.
Finish ==
    /\ pc = "flush"
    /\ save_failed_tasks(all_failed_tasks)
    /\ pc' = "done"
    /\ inflight' = 0
    /\ UNCHANGED <<arg, ret, variant, dir, storeExists, store, run, processed_codes,
                   files_to_process, file_index, all_data_to_process, pool,
                   successful_results, failed_tasks, all_failed_tasks, interrupted,
                   opened, pauses, stopped>>

\* Ctrl+C while the main thread is outside the pause's try block. During the pool,
\* Executor.map (ai_scorer) cancels the futures not yet started; as_completed
\* (stock_scorer) cancels nothing; either way the `with` waits for the workers.
Interrupt ==
    /\ pc \in {"load", "score"}
    /\ ~interrupted
    /\ interrupted' = TRUE
    /\ stopped' = "interrupt"
    /\ IF pc = "load"
       THEN /\ pc' = "raise"
            /\ UNCHANGED pool
       ELSE /\ pool' = IF variant = "ai_scorer"
                       THEN [i \in Tasks |->
                               IF pool[i].st = "queued"
                               THEN [pool[i] EXCEPT !.st = "cancelled"] ELSE pool[i]]
                       ELSE pool
            /\ UNCHANGED pc
    /\ UNCHANGED <<inflight, arg, ret, variant, dir, storeExists, store, failLogExists, failLog, run,
                   processed_codes, files_to_process, file_index, all_data_to_process,
                   successful_results, failed_tasks, all_failed_tasks, opened, pauses>>

\* An exception leaves the file loop. ai_scorer.main has no handler and no finally;
\* StockScorer.run saves the failures in its finally, main.py logs the exception.
Unwind ==
    /\ \/ pc = "raise"
       \/ (pc = "score" /\ interrupted /\ PoolDrained)
    /\ IF variant = "stock_scorer"
       THEN save_failed_tasks(all_failed_tasks)
       ELSE UNCHANGED <<failLogExists, failLog>>
    /\ pc' = "aborted"
    /\ inflight' = IF \E i \in Tasks : pool[i].result.status = "success"
                   THEN files_to_process[file_index + 1] ELSE 0
    /\ UNCHANGED <<arg, ret, variant, dir, storeExists, store, run, processed_codes,
                   files_to_process, file_index, all_data_to_process, pool,
                   successful_results, failed_tasks, all_failed_tasks, interrupted,
                   opened, pauses, stopped>>

---------------------------------------------------------------------------
\* Inputs

\* the code of the j-th file of the directory: every other one starts with a zero
Code(j, z) == IF (j + z) % 2 = 0 THEN <<0, j>> ELSE <<j, 0>>

Task(j, z, k, title, content) ==
    [id |-> 10 * j + k, stock_code |-> Code(j, z), title |-> title, content |-> content]

\* a file that is a JSON array of records
Flat(tasks) ==
    [kind |-> "json", json |-> Arr([k \in 1..Len(tasks) |-> Obj(tasks[k])])]

\* a file whose JSON array holds the list of records at index 10
Wrapped(tasks) ==
    [kind |-> "json",
     json |-> Arr([k \in 1..LoadIndex |-> Arr(<<>>)]
                  \o <<Arr([k \in 1..Len(tasks) |-> Obj(tasks[k])])>>)]

\* a file that does not load: missing, empty or malformed
Unloadable(j) ==
    [kind |-> IF j % 3 = 1 THEN "empty" ELSE IF j % 3 = 2 THEN "missing" ELSE "malformed",
     json |-> None]

FileOf(j, z, shape, tasks) ==
    [code |-> Code(j, z),
     content |-> CASE shape = "flat" -> Flat(tasks)
                   [] shape = "wrapped" -> Wrapped(tasks)
                   [] OTHER -> Unloadable(j)]

\* a file of the directory that is not on the allow-list
OtherFile ==
    [code |-> <<9, 9>>,
     content |-> Flat(<<[id |-> 99, stock_code |-> <<9, 9>>, title |-> <<"x">>,
                         content |-> <<"x">>]>>)]

\* the format an implementation reads records from: ai_scorer a flat array,
\* stock_scorer the array at index 10
Native(v) == IF v = "ai_scorer" THEN "flat" ELSE "wrapped"

Shapes(v) == {"bad", Native(v)}

\* directories of n target files with one record each, at most MaxScored of them
\* holding JSON; the directories that are run again come with either parity of
\* the leading zeros
Listings(v, n) ==
    {<<OtherFile>> \o
       [j \in 1..n |-> FileOf(j, z, sh[j], <<Task(j, z, 1, <<"x">>, <<"x">>)>>)] :
        z \in (IF n <= MaxRerun THEN {0, 1} ELSE {0}),
        sh \in {f \in [1..n -> Shapes(v)] :
                  Cardinality({j \in 1..n : f[j] # "bad"}) <= MaxScored}}

Titles == {<<>>, <<"x">>}

Contents == {<<>>, <<" ">>, <<"x">>}

\* directories of one file holding one record of any text, in either format for
\* stock_scorer
OneFile(v) ==
    {<<FileOf(1, 0, sh, <<Task(1, 0, 1, tx[1], tx[2])>>)>> :
        sh \in {"flat", Native(v)}, tx \in Titles \X Contents}

InitRest ==
    /\ storeExists = FALSE
    /\ store = <<>>
    /\ failLogExists = FALSE
    /\ failLog = <<>>
    /\ run = 0
    /\ pc = "idle"
    /\ processed_codes = {}
    /\ files_to_process = <<>>
    /\ file_index = 0
    /\ all_data_to_process = <<>>
    /\ pool = <<>>
    /\ successful_results = <<>>
    /\ failed_tasks = <<>>
    /\ all_failed_tasks = <<>>
    /\ interrupted = FALSE
    /\ opened = {}
    /\ pauses = {}
    /\ stopped = ""
    /\ inflight = 0

\* what a function of the analysis scripts returned: nothing before the call
NotCalled == [called |-> FALSE, df |-> <<>>]

Returned(df) == [called |-> TRUE, df |-> df]

\* the analysis scripts are not run
NoAnalysis ==
    /\ arg = <<>>
    /\ ret = NotCalled

\* The pipeline over a directory of several files
Init ==
    /\ variant \in Variants
    /\ \E n \in 1..MaxFiles : dir \in Listings(variant, n)
    /\ InitRest
    /\ NoAnalysis

Next ==
    \/ StartRun
    \/ LoadFile
    \/ \E i \in Tasks : WorkerStart(i)
    \/ \E i \in Tasks : WorkerAttempt(i)
    \/ Persist
    \/ Pause
    \/ Finish
    \/ Interrupt
    \/ Unwind

Spec == Init /\ [][Next]_vars

\* The scorer and the pool over one file
InitScorer ==
    /\ variant \in Variants
    /\ dir \in OneFile(variant)
    /\ InitRest
    /\ NoAnalysis

\* a single run
FirstRun == run = 0 /\ StartRun

NextScorer ==
    \/ FirstRun
    \/ LoadFile
    \/ \E i \in Tasks : WorkerStart(i)
    \/ \E i \in Tasks : WorkerAttempt(i)
    \/ Persist
    \/ Finish
    \/ Interrupt
    \/ Unwind

SpecScorer == InitScorer /\ [][NextScorer]_vars

\* a JSON value that is no object and no array, such as 5
JsonNumber == [type |-> "number", rec |-> NoTask, items |-> <<>>]

\* more records in a file than the pool has workers
MaxRecs == MAX_CONCURRENT_REQUESTS + 1

Records(j, n) == [k \in 1..n |-> Task(j, 0, k, <<"x">>, <<"x">>)]

\* a file in the format the implementation reads whose list of records ends
\* with a number
Mixed(v, tasks) ==
    LET list == Arr([k \in 1..Len(tasks) |-> Obj(tasks[k])] \o <<JsonNumber>>)
    IN [kind |-> "json",
        json |-> IF v = "ai_scorer" THEN list
                 ELSE Arr([k \in 1..LoadIndex |-> Arr(<<>>)] \o <<list>>)]

\* the first file of a pool directory: MaxRecs records in the implementation's
\* format, or one record and a number, or a JSON array of LoadIndex + 1 records
PoolFiles(v) ==
    {FileOf(1, 0, Native(v), Records(1, MaxRecs)),
     [code |-> Code(1, 0), content |-> Mixed(v, Records(1, 1))],
     FileOf(1, 0, "flat", Records(1, IF v = "ai_scorer" THEN 1 ELSE LoadIndex + 1))}

\* The pool over a file of several records, followed by a file of one record
InitPool ==
    /\ variant \in Variants
    /\ \E f \in PoolFiles(variant) :
          dir = <<f, FileOf(2, 0, Native(variant), Records(2, 1))>>
    /\ InitRest
    /\ NoAnalysis

SpecPool == InitPool /\ [][NextScorer]_vars

---------------------------------------------------------------------------
\* calculate_score_distance.py: reading a results file

MaxRows == 3

MaxIds == 2

\* df.duplicated('id', keep=False): the positions whose id occurs elsewhere too
duplicated(df) ==
    {i \in 1..Len(df) : \E j \in 1..Len(df) : j # i /\ df[j].id = df[i].id}

\* drop_duplicates that keeps the first row of every id
RECURSIVE drop_duplicates_KeepsFirst(_)
drop_duplicates_KeepsFirst(df) ==
    IF df = <<>> THEN <<>>
    ELSE LET n == Len(df)
             front == SubSeq(df, 1, n - 1)
         IN IF \E j \in 1..(n - 1) : df[j].id = df[n].id
            THEN drop_duplicates_KeepsFirst(front)
            ELSE Append(drop_duplicates_KeepsFirst(front), df[n])

\* df.drop_duplicates('id', keep='last'): a row stays when no later row has its
\* id; the rows that stay keep their order
RECURSIVE drop_duplicates(_)
drop_duplicates(df) ==
    IF df = <<>> THEN <<>>
    ELSE IF \E j \in 2..Len(df) : df[j].id = Head(df).id
         THEN drop_duplicates(Tail(df))
         ELSE <<Head(df)>> \o drop_duplicates(Tail(df))

\* pd.read_csv: the first line names the columns, every other line is a row
read_csv(lines) == IF lines = <<>> THEN <<>> ELSE Tail(lines)

load_and_clean_data(lines) ==
    LET df == read_csv(lines)
    IN IF duplicated(df) # {} THEN drop_duplicates(df) ELSE df

\* results files: a header and up to MaxRows rows over MaxIds ids, as appends of
\* one or several runs leave them
ResultRows ==
    [kind : {"row"}, id : 1..MaxIds, stock_code : {<<1, 0>>},
     data : {ReplyValid, ReplyOutOfRange}]

ResultFiles ==
    UNION {{<<Header>> \o [k \in 1..n |-> f[k]] : f \in [1..n -> ResultRows]} :
             n \in 0..MaxRows}

InitClean ==
    /\ variant = "stock_scorer"
    /\ dir = <<>>
    /\ InitRest
    /\ arg \in ResultFiles
    /\ ret = NotCalled

\* calculate_score_distances calls load_and_clean_data on a results file
CallClean ==
    /\ ~ret.called
    /\ ret' = Returned(load_and_clean_data(arg))
    /\ UNCHANGED <<variant, dir, storeExists, store, failLogExists, failLog, run, pc,
                   processed_codes, files_to_process, file_index, all_data_to_process,
                   pool, successful_results, failed_tasks, all_failed_tasks,
                   interrupted, opened, pauses, stopped, inflight, arg>>

SpecClean == InitClean /\ [][CallClean]_vars

---------------------------------------------------------------------------
\* Claims about the scorer (checked under SpecScorer)

\* C1: for every task the scorer calls the collaborator at most MAX_RETRIES
\* times, and a finished task's result is {failed, "Max retries exceeded"} exactly
\* when it made MAX_RETRIES calls and every one of them ended in a retryable
\* failure (a rate limit or a timeout).
C1_RetryBudget ==
    \A i \in Tasks :
        /\ pool[i].calls <= MAX_RETRIES
        /\ pool[i].st = "done" =>
              ((pool[i].result = MaxRetriesExceeded)
                 <=> (pool[i].calls = MAX_RETRIES /\ pool[i].transient = MAX_RETRIES))

\* C2: a call that raised a non-transient error ends the task at once with a
\* failed result, and every retry sleep taken for a task followed a transient
\* failure (rate limit, timeout).
C2_FatalFailsAtOnce ==
    \A i \in Tasks :
        /\ pool[i].last.kind = "error" =>
              (pool[i].st = "done" /\ pool[i].result.status = "failed")
        /\ pool[i].sleeps = pool[i].transient

\* C3: after a reply that does not parse as JSON the task is finished, its result
\* is failed with that raw reply attached, and no attempt follows even when
\* attempts remain.
C3_ParseFailureTerminal ==
    \A i \in Tasks :
        (pool[i].last.kind = "reply" /\ ~pool[i].last.reply.json) =>
            /\ pool[i].st = "done"
            /\ pool[i].result.status = "failed"
            /\ pool[i].result.content = pool[i].last.reply

\* C3, its case reached: a first reply that does not parse ended the task, two
\* attempts unused
C3_Witness ==
    \E i \in Tasks :
        /\ pool[i].last = [kind |-> "reply", reply |-> ReplyGarbage]
        /\ pool[i].calls = 1
        /\ pool[i].attempt < MAX_RETRIES - 1
        /\ pool[i].result.content = ReplyGarbage

\* models.StockScore: all five factor fields, each a number within [0.0, 1.0]
StockScore(data) ==
    /\ data.json
    /\ data.object
    /\ FactorFields \subseteq data.keys
    /\ 0 <= data.tenths
    /\ data.tenths <= 10

\* C4: a task's result is success only if the reply is a JSON object holding all
\* five factor fields, each within [0.0, 1.0]; a reply that parses but lacks a
\* field or holds a value out of range is failed, and the store gets no row for it.
C4_OnlyValidScoresSucceed ==
    /\ \A i \in Tasks :
          /\ pool[i].result.status = "success" => StockScore(pool[i].result.data)
          /\ (pool[i].last.kind = "reply" /\ pool[i].last.reply.json
                /\ ~StockScore(pool[i].last.reply)) => pool[i].result.status = "failed"
    /\ \A k \in 1..Len(store) : store[k].kind = "row" => StockScore(store[k].data)

\* C5: a finished task was skipped exactly when its title together with its
\* content is empty or whitespace-only, and a skipped task made no collaborator call.
C5_EmptyTextSkipped ==
    \A i \in Tasks :
        pool[i].st = "done" =>
            LET t == all_data_to_process[i].rec
            IN /\ (pool[i].result = Skipped) <=> (Strip(t.title \o t.content) = <<>>)
               /\ pool[i].result = Skipped => pool[i].calls = 0

---------------------------------------------------------------------------
\* Claims about the run (checked under Spec)

IsPrefix(s, t) == Len(s) <= Len(t) /\ SubSeq(t, 1, Len(s)) = s

\* the store holds a row written for every target file of the directory
EveryTargetStored ==
    \A k \in 1..Len(TargetFiles) :
        \E r \in 1..Len(store) :
            store[r].kind = "row" /\ store[r].stock_code = dir[TargetFiles[k]].code

\* C6: a second run over unchanged inputs, starting from the store as the first
\* run left it, processes no file. Stated where the first run left a row for
\* every target file: there the second run has nothing to process.
C6_ResumptionIdempotent ==
    (run = 2 /\ opened = {} /\ EveryTargetStored) => files_to_process = <<>>

\* C7: in every run a target file is left out of the files to process exactly
\* when the code in its name is one of the stock_code values read back from the
\* store at the start of the run; only files to process are loaded, and the
\* records being scored are those of the file in flight.
C7_ResumptionFilter ==
    run >= 1 =>
        /\ LET target_json_files == TargetFiles
           IN \A k \in 1..Len(target_json_files) :
                 (\A m \in 1..Len(files_to_process) :
                      files_to_process[m] # target_json_files[k])
                    <=> dir[target_json_files[k]].code \in processed_codes
        /\ opened = {} => processed_codes = load_processed_codes(storeExists, store)
        /\ opened \subseteq 1..Len(files_to_process)
        /\ \A i \in Tasks : all_data_to_process[i].rec.stock_code = CurrentFile.code

\* C7, its case reached: a second run that leaves out a target file because the
\* store holds a row of its code
C7_Witness ==
    /\ run = 2
    /\ \E k \in 1..Len(TargetFiles) :
          /\ dir[TargetFiles[k]].code \in processed_codes
          /\ \A m \in 1..Len(files_to_process) : files_to_process[m] # TargetFiles[k]

\* C8: the run pauses after a file only at positions 5, 10, ... that are not the
\* last one, and no file that follows such a position is started before the run
\* paused there, whatever became of the file at that position.
C8_PauseEveryFifth ==
    /\ pauses \subseteq {p \in 1..(Len(files_to_process) - 1) : p % PauseEvery = 0}
    /\ (pc \in {"load", "score"} /\ file_index > 0 /\ file_index % PauseEvery = 0)
          => file_index \in pauses

NoNewCalls ==
    /\ Len(pool') = Len(pool)
    /\ \A i \in Tasks : pool'[i].calls = pool[i].calls

\* C9 as claimed: once the operator answered 'q' at a pause or an interrupt
\* arrived, the run loads no further file, issues no further collaborator call,
\* and keeps every row of the store.
C9_NothingAfterStop ==
    [][(stopped # "" /\ run' = run) =>
          (opened' = opened /\ NoNewCalls /\ IsPrefix(store, store'))]_vars

\* C9 as amended: once the operator answered 'q' or pressed Ctrl+C at a pause,
\* the run loads no further file and issues no further collaborator call; once
\* an interrupt arrived while a file was loaded or scored, the run loads no
\* further file, and only tasks of the file in flight still call the
\* collaborator (in ai_scorer only those already running). Either way every row
\* of the store is kept.
C9_StopKeepsStore ==
    [][(stopped # "" /\ run' = run) =>
          /\ opened' = opened
          /\ IsPrefix(store, store')
          /\ ~interrupted => NoNewCalls
          /\ Len(pool') = Len(pool)
          /\ variant = "ai_scorer" =>
                \A i \in Tasks : pool[i].st # "running" => pool'[i] = pool[i]]_vars

\* C9, its case reached: the operator quit at a pause with rows in the store and
\* files left, and the run ended having loaded none of them
C9_Witness ==
    /\ stopped = "quit"
    /\ pc = "done"
    /\ DataRows(store) # <<>>
    /\ file_index + 1 < Len(files_to_process)
    /\ opened = 1..(file_index + 1)

\* the step that hands the file in flight to the loader and gets nothing
LoadFails ==
    /\ pc = "load"
    /\ opened' # opened
    /\ Falsy(load_data_from_json_file(variant, CurrentFile.content))

\* C10: a file that fails to load is skipped and nothing else: that step appends
\* nothing, records no failure and raises nothing, the iteration that follows in
\* stock_scorer appends nothing either, and a run that ends without quit or
\* interrupt has handed every file to process to the loader.
C10_LoadFailureSkipsFile ==
    [][/\ LoadFails =>
            /\ store' = store
            /\ all_failed_tasks' = all_failed_tasks
            /\ pc' \in {"load", "score", "flush"}
            /\ pool' = <<>>
            /\ pc' = "load" => file_index' = file_index + 1
            /\ pc' = "flush" => file_index + 1 = Len(files_to_process)
       /\ (pc = "score" /\ pool = <<>> /\ ~interrupted) =>
            (store' = store /\ pc' \in {"load", "pause", "flush", "raise", "score"})
       /\ (pc' = "done" /\ stopped' = "" /\ files_to_process' # <<>>) =>
            opened' = 1..Len(files_to_process')]_vars

\* C10, its case reached: a run ended normally in which a file failed to load and
\* a later file was scored into the store
C10_Witness ==
    /\ pc = "done"
    /\ stopped = ""
    /\ \E k \in 1..Len(files_to_process) :
          /\ Falsy(load_data_from_json_file(variant, dir[files_to_process[k]].content))
          /\ \E m \in (k + 1)..Len(files_to_process) :
                \E r \in 1..Len(store) :
                    store[r].kind = "row"
                      /\ store[r].stock_code = dir[files_to_process[m]].code

---------------------------------------------------------------------------
\* Claims about the pool and the file loop (checked under SpecPool and Spec)

\* the row of task i, when its result is a score that can be written
Scored(i) == pool[i].result.status = "success" /\ pool[i].result.data.object

InStore(lines, row) == \E r \in 1..Len(lines) : lines[r] = row

\* C11: whatever its tasks ended in, a file whose pool ran to the end without an
\* interrupt is finished normally: every task has its result, every score of the
\* file is appended to the store, and the run goes on to the next file, to the
\* pause or to the end of the file loop.
C11_TaskFailureIsolated ==
    [][(pc = "score" /\ ~interrupted /\ pc' # "score") =>
          /\ pc' \in {"load", "pause", "flush"}
          /\ \A i \in Tasks :
                /\ pool[i].st = "done"
                /\ Scored(i) => InStore(store', FlatResult(all_data_to_process[i],
                                                           pool[i].result))]_vars

\* C12: when a file is finished and the run goes on, every score of that file is
\* in the store; nothing of a finished file stays in memory when the next file is
\* loaded or the run pauses; and within a run the store only grows. So at the
\* start of file k+1 the scores of files 1..k are in the store.
C12_FlushedBeforeNextFile ==
    [][/\ (pc = "score" /\ pc' \in {"load", "pause", "flush"}) =>
            \A i \in Tasks :
                Scored(i) => InStore(store', FlatResult(all_data_to_process[i],
                                                        pool[i].result))
       /\ pc' \in {"load", "pause"} =>
            (pool' = <<>> /\ successful_results' = <<>> /\ all_data_to_process' = <<>>)
       /\ run' = run => IsPrefix(store, store')]_vars

\* C12, its case reached: the run is about to load a file and the scores of the
\* file before it are in the store
C12_Witness ==
    /\ pc = "load"
    /\ file_index >= 1
    /\ \E r \in 1..Len(store) :
          /\ store[r].kind = "row"
          /\ store[r].stock_code = dir[files_to_process[file_index]].code

\* one header row followed only by data rows
HeaderThenRows(lines) ==
    /\ lines # <<>>
    /\ lines[1] = Header
    /\ \A r \in 2..Len(lines) : lines[r].kind = "row"

\* C13: every step that changes the store appends to it, leaving the lines written
\* earlier as they were; what it appends starts with the header exactly when the
\* store did not exist before the step; and after it the store is one header row
\* followed only by data rows.
C13_AppendOnlyOneHeader ==
    [][store' # store =>
          /\ IsPrefix(store, store')
          /\ (store'[Len(store) + 1] = Header) <=> ~storeExists
          /\ \A r \in (Len(store) + 2)..Len(store') : store'[r].kind = "row"
          /\ HeaderThenRows(store')
          /\ storeExists']_vars

\* C13, its case reached: a store written by appends of two runs
C13_Witness ==
    /\ run = 2
    /\ opened # {}
    /\ HeaderThenRows(store)
    /\ Len(store) >= 3

\* C14: when a run has ended normally, the failure log holds exactly the failed
\* tasks of that run, also when there were none.
C14_FailureLogOfThisRun ==
    (run >= 1 /\ pc = "done") => failLog = all_failed_tasks

\* the tasks inside the scorer: in a collaborator call or in a retry sleep
InScorer == {i \in Tasks : pool[i].st = "running"}

\* C15: at most MAX_CONCURRENT_REQUESTS tasks are inside the scorer, and while the
\* pool is at work a queued task can start as soon as fewer than that many are
\* inside, whatever the tasks inside are doing.
C15_BoundedConcurrency ==
    /\ Cardinality(InScorer) <= MAX_CONCURRENT_REQUESTS
    /\ (/\ pc = "score"
        /\ \E i \in Tasks : pool[i].st = "queued"
        /\ Cardinality(InScorer) < MAX_CONCURRENT_REQUESTS)
          => ENABLED (\E i \in Tasks : WorkerStart(i))

\* C15, its case reached: every worker is busy, one of them in a retry, and a
\* task waits
C15_Witness ==
    /\ Cardinality(InScorer) = MAX_CONCURRENT_REQUESTS
    /\ \E i \in InScorer : pool[i].sleeps > 0
    /\ \E i \in Tasks : pool[i].st = "queued"

\* C16: the store changes only in a step of the orchestrator taken when no task
\* of the file is queued or inside the scorer, and that step ends the file, so
\* there is at most one append per file; the orchestrator leaves a file only when
\* none of its tasks is queued or inside the scorer; and whenever the run is at
\* the pause, or between files, no task exists.
C16_WritesSerialized ==
    [][/\ store' # store =>
            /\ pc = "score"
            /\ pc' \in {"load", "pause", "flush"}
            /\ pool' = <<>>
       /\ (pc = "score" /\ pc' # "score") =>
            \A i \in Tasks : pool[i].st \in {"done", "cancelled"}
       /\ pc' \in {"pause", "load", "flush", "done"} => pool' = <<>>]_vars

\* C16, its case reached: the run is at the pause after the scores of the file
\* before it were appended
C16_Witness ==
    /\ pc = "pause"
    /\ pool = <<>>
    /\ \E r \in 1..Len(store) :
          store[r].kind = "row" /\ store[r].stock_code = CurrentFile.code

\* the failure log holds task i as failed
LoggedFailed(i) ==
    \E k \in 1..Len(failLog) :
        /\ failLog[k].id = all_data_to_process[i].rec.id
        /\ failLog[k].error_details.status = "failed"

\* C17: a task that the run before ended as failed, as the failure log of that
\* run shows, is not sent to the collaborator in this run.
C17_NoRetryAcrossRuns ==
    (run = 2 /\ pc = "score") =>
        \A i \in Tasks : LoggedFailed(i) => pool[i].calls = 0

\* the file is a JSON array of records
ArrayOfRecords(content) ==
    /\ content.kind = "json"
    /\ content.json.type = "array"
    /\ \A k \in 1..Len(content.json.items) : content.json.items[k].type = "object"

\* C18: when a file that is a JSON array of records loads, every record of the
\* array, in order, becomes one queued task of the pool and no other task is
\* made; a task that has left the queue never returns to it and a finished task
\* is never run again.
C18_EveryRecordOnce ==
    [][/\ (/\ pc = "load"
           /\ opened' # opened
           /\ ArrayOfRecords(CurrentFile.content)
           /\ ~Falsy(load_data_from_json_file(variant, CurrentFile.content))) =>
            /\ pc' = "score"
            /\ all_data_to_process' = CurrentFile.content.json.items
            /\ pool' = [k \in 1..Len(CurrentFile.content.json.items) |-> NewFuture]
       /\ (pc = "score" /\ pc' = "score") =>
            /\ Len(pool') = Len(pool)
            /\ all_data_to_process' = all_data_to_process
            /\ \A i \in Tasks :
                  /\ pool[i].st # "queued" => pool'[i].st # "queued"
                  /\ pool[i].st = "done" => pool'[i] = pool[i]]_vars

\* C19: in the run that follows a run aborted while scores of a file were in
\* memory only, that file is not among the processed codes and is among the files
\* to process; when it is loaded every one of its records gets a new task, and a
\* score of the file is the result of a call made in this run.
C19_CrashedFileReprocessed ==
    (run >= 2 /\ inflight # 0) =>
        /\ dir[inflight].code \notin processed_codes
        /\ \E m \in 1..Len(files_to_process) : files_to_process[m] = inflight
        /\ (pc = "score" /\ files_to_process[file_index + 1] = inflight) =>
              /\ all_data_to_process =
                    load_data_from_json_file(variant, dir[inflight].content).items
              /\ Len(pool) = Len(all_data_to_process)
              /\ \A i \in Tasks : Scored(i) => pool[i].calls >= 1

\* C19, its case reached: the file in flight when the run before was aborted is
\* scored again
C19_Witness ==
    /\ run >= 2
    /\ inflight # 0
    /\ pc = "score"
    /\ files_to_process[file_index + 1] = inflight
    /\ \E i \in Tasks : Scored(i) /\ pool[i].calls >= 1

---------------------------------------------------------------------------
\* Claims about the analysis scripts (checked under SpecClean)

\* the positions of the rows of `id` in a sequence of rows
RowsOf(rows, id) == {k \in 1..Len(rows) : rows[k].id = id}

Last(S) == CHOOSE k \in S : \A m \in S : m <= k

\* C20: for every id of the results file, load_and_clean_data returns exactly one
\* row of that id, and it is the row of that id written last in the file; it
\* returns no row of any other id. (A row whose id occurs once is its own last
\* row, so it is returned as written.)
C20_LastWriteWins ==
    ret.called =>
        LET rows == Tail(arg) IN
        /\ \A k \in 1..Len(rows) :
              /\ Cardinality(RowsOf(ret.df, rows[k].id)) = 1
              /\ \A m \in RowsOf(ret.df, rows[k].id) :
                    ret.df[m] = rows[Last(RowsOf(rows, rows[k].id))]
        /\ \A m \in 1..Len(ret.df) : RowsOf(rows, ret.df[m].id) # {}

\* C20, its case reached: a file holding one id twice with different scores and
\* another id once
C20_Witness ==
    /\ ret.called
    /\ \E i, j \in 2..Len(arg) :
          /\ i < j
          /\ arg[i].id = arg[j].id
          /\ arg[i].data # arg[j].data
          /\ \E k \in 2..Len(arg) :
                arg[k].id # arg[i].id /\ Cardinality(RowsOf(Tail(arg), arg[k].id)) = 1

---------------------------------------------------------------------------
\* backtest.py: run_backtest_final_entry.  `arg` is what the two input files hold,
\* [stock_df |-> the rows of the daily price file, factor_df |-> the rows of the
\* signal file]; `ret` is what the signal loop produced.  Dates are day numbers,
\* times of day are HHMM numbers (the signal file has minutes, no seconds), scores
\* are tenths and prices are integer price units.

\* HORIZON_MAP: short_term, mid_term and long_term stand for its three keys, in
\* the order of the source
HORIZON_MAP == [short_term |-> 5, mid_term |-> 20, long_term |-> 60]

CONF_THRESHOLD == 5

SENT_POSITIVE_THRESHOLD == 3

SENT_NEGATIVE_THRESHOLD == -3

TIME_0900 == 900

TIME_1500 == 1500

\* HORIZON_MAP.get(signal['time_horizon']); NoPeriod is None
NoPeriod == -1

holding_period_of(time_horizon) ==
    IF time_horizon \in DOMAIN HORIZON_MAP THEN HORIZON_MAP[time_horizon] ELSE NoPeriod

\* the order of sort_values(by=['stock_code_match', 'trade_date']); the codes are
\* strings of one length, which compare as their numbers do
RowBefore(a, b) ==
    \/ StrToInt(a.stock_code_match) < StrToInt(b.stock_code_match)
    \/ a.stock_code_match = b.stock_code_match /\ a.trade_date < b.trade_date

\* sort_values that leaves the rows in the order of the file
sort_values_AsRead(df) == df

RECURSIVE sort_values(_)
sort_values(df) ==
    IF df = <<>> THEN <<>>
    ELSE LET rest == sort_values(Tail(df))
             before == {i \in 1..Len(rest) : RowBefore(rest[i], Head(df))}
         IN SubSeq(rest, 1, Cardinality(before)) \o <<Head(df)>>
            \o SubSeq(rest, Cardinality(before) + 1, Len(rest))

\* stock_df after lines 56-59: ts_code '600000.SH' gives stock_code_match '600000'
\* (a string column keeps its leading zeros), then the rows are sorted
read_stock_df(rows) ==
    sort_values([i \in 1..Len(rows) |->
        [stock_code_match |-> rows[i].ts_code, trade_date |-> rows[i].trade_date,
         open |-> rows[i].open, close |-> rows[i].close]])

\* factor_df after lines 53-64: read_csv reads a stock_code column of digits as
\* integers, and astype(str) writes them back without their leading zeros
read_factor_df(rows) ==
    LET numeric == \A i \in 1..Len(rows) : IsNumeric(rows[i].stock_code)
    IN [i \in 1..Len(rows) |->
          [rows[i] EXCEPT !.stock_code =
              IF numeric THEN IntToStr(StrToInt(rows[i].stock_code))
              ELSE rows[i].stock_code]]

\* stock_data_cache: the keys, and for a key the group with reset_index(drop=True)
\* and the set of its trading days
CachedCodes(stock_df) == {stock_df[i].stock_code_match : i \in 1..Len(stock_df)}

data_reset(stock_df, code) == SelectSeq(stock_df, LAMBDA r : r.stock_code_match = code)

days_set(stock_specific_df) ==
    {stock_specific_df[i].trade_date : i \in 1..Len(stock_specific_df)}

\* .iloc[k] and the index label of a row: the rows of a group are numbered from 0
iloc(stock_specific_df, k) == stock_specific_df[k + 1]

\* the gate of lines 101-105; NoType is None
NoType == "none"

trade_type_Inclusive(sent, event, novel) ==
    IF sent >= SENT_POSITIVE_THRESHOLD /\ event >= CONF_THRESHOLD
       /\ novel >= CONF_THRESHOLD THEN "long"
    ELSE IF sent <= SENT_NEGATIVE_THRESHOLD /\ event >= CONF_THRESHOLD
            /\ novel >= CONF_THRESHOLD THEN "short"
    ELSE NoType

trade_type_of(sent, event, novel) ==
    IF sent > SENT_POSITIVE_THRESHOLD /\ event > CONF_THRESHOLD
       /\ novel > CONF_THRESHOLD THEN "long"
    ELSE IF sent < SENT_NEGATIVE_THRESHOLD /\ event > CONF_THRESHOLD
            /\ novel > CONF_THRESHOLD THEN "short"
    ELSE NoType

\* entry_candidates of lines 126, 137, 146, 155: the positions (from 0) of the rows
\* dated on or after, or strictly after, the signal date
entry_candidates(stock_specific_df, signal_date, strictly_after) ==
    {k \in 0..(Len(stock_specific_df) - 1) :
        IF strictly_after THEN iloc(stock_specific_df, k).trade_date > signal_date
        ELSE iloc(stock_specific_df, k).trade_date >= signal_date}

NoEntry == [found |-> FALSE, entry_index |-> -1, entry_price |-> 0, entry_date |-> 0]

\* entry_row = entry_candidates.iloc[0], with the price column the rule names
first_candidate_OrLast(stock_specific_df, candidates, column) ==
    LET k == IF candidates = {} THEN Len(stock_specific_df) - 1
             ELSE CHOOSE c \in candidates : \A d \in candidates : c <= d
        entry_row == iloc(stock_specific_df, k)
    IN [found |-> TRUE, entry_index |-> k,
        entry_price |-> IF column = "open" THEN entry_row.open ELSE entry_row.close,
        entry_date |-> entry_row.trade_date]

first_candidate(stock_specific_df, candidates, column) ==
    IF candidates = {} THEN NoEntry
    ELSE LET k == CHOOSE c \in candidates : \A d \in candidates : c <= d
             entry_row == iloc(stock_specific_df, k)
         IN [found |-> TRUE, entry_index |-> k,
             entry_price |-> IF column = "open" THEN entry_row.open ELSE entry_row.close,
             entry_date |-> entry_row.trade_date]

\* the three branches of lines 123-159
entry_rule_StrictBefore0900(signal_time, is_signal_day_trading_day) ==
    IF signal_time < TIME_0900 THEN [strictly_after |-> TRUE, column |-> "open"]
    ELSE IF signal_time <= TIME_1500 THEN
        IF is_signal_day_trading_day THEN [strictly_after |-> FALSE, column |-> "close"]
        ELSE [strictly_after |-> TRUE, column |-> "open"]
    ELSE [strictly_after |-> TRUE, column |-> "open"]

entry_rule_ExclusiveEnds(signal_time, is_signal_day_trading_day) ==
    IF signal_time <= TIME_0900 THEN [strictly_after |-> FALSE, column |-> "open"]
    ELSE IF signal_time < TIME_1500 THEN
        IF is_signal_day_trading_day THEN [strictly_after |-> FALSE, column |-> "close"]
        ELSE [strictly_after |-> TRUE, column |-> "open"]
    ELSE [strictly_after |-> TRUE, column |-> "open"]

entry_rule_IgnoresCalendar(signal_time, is_signal_day_trading_day) ==
    IF signal_time < TIME_0900 THEN [strictly_after |-> FALSE, column |-> "open"]
    ELSE IF signal_time <= TIME_1500 THEN [strictly_after |-> FALSE, column |-> "close"]
    ELSE [strictly_after |-> TRUE, column |-> "open"]

entry_rule(signal_time, is_signal_day_trading_day) ==
    IF signal_time < TIME_0900 THEN [strictly_after |-> FALSE, column |-> "open"]
    ELSE IF signal_time <= TIME_1500 THEN
        IF is_signal_day_trading_day THEN [strictly_after |-> FALSE, column |-> "close"]
        ELSE [strictly_after |-> TRUE, column |-> "open"]
    ELSE [strictly_after |-> TRUE, column |-> "open"]

resolve_entry(stock_specific_df, signal_date, signal_time) ==
    LET rule == entry_rule(signal_time, signal_date \in days_set(stock_specific_df))
    IN first_candidate(stock_specific_df,
                       entry_candidates(stock_specific_df, signal_date, rule.strictly_after),
                       rule.column)

\* line 169
exit_index_CalendarDays(stock_specific_df, entry_index, holding_period) ==
    LET day == iloc(stock_specific_df, entry_index).trade_date + holding_period
        upto == {k \in 0..(Len(stock_specific_df) - 1) :
                    iloc(stock_specific_df, k).trade_date <= day}
    IN IF day > iloc(stock_specific_df, Len(stock_specific_df) - 1).trade_date
       THEN Len(stock_specific_df)
       ELSE CHOOSE k \in upto : \A m \in upto : m <= k

exit_index_of(stock_specific_df, entry_index, holding_period) ==
    entry_index + holding_period

\* line 171, negated: the exit row exists
has_exit_NeedsRowAfter(stock_specific_df, exit_index) ==
    exit_index + 1 < Len(stock_specific_df)

has_exit(stock_specific_df, exit_index) == ~(exit_index >= Len(stock_specific_df))

\* lines 179-183: the return is the quotient num / den of two prices
pct_return_LongOnly(trade_type, entry_price, exit_price) ==
    [num |-> exit_price - entry_price, den |-> entry_price]

pct_return_of(trade_type, entry_price, exit_price) ==
    IF trade_type = "long" THEN [num |-> exit_price - entry_price, den |-> entry_price]
    ELSE [num |-> entry_price - exit_price, den |-> entry_price]

\* pct_return > 0
Positive(q) == (q.num > 0 /\ q.den > 0) \/ (q.num < 0 /\ q.den < 0)

\* what one pass of the loop of lines 81-201 did with a signal: where it left the
\* pass (`at`), the locals it had computed by then, and the row it appended
Pass(signal, at) ==
    [signal_id |-> signal.id, stock_code |-> signal.stock_code, at |-> at,
     pub_date |-> signal.pub_date, pub_time |-> signal.pub_time,
     holding_period_days |-> NoPeriod, trade_type |-> NoType,
     entry_index |-> -1, entry_date |-> 0, entry_price |-> 0,
     exit_index |-> -1, exit_date |-> 0, exit_price |-> 0,
     pct_return |-> [num |-> 0, den |-> 1], is_win |-> FALSE]

Iteration(stock_df, signal) ==
    IF signal.stock_code \notin CachedCodes(stock_df) THEN Pass(signal, "no_prices")
    ELSE
    LET stock_specific_df == data_reset(stock_df, signal.stock_code)
        holding_period == holding_period_of(signal.time_horizon)
        trade_type == trade_type_of(signal.sentiment_score, signal.event_driven_score,
                                    signal.novelty_score)
    IN
    IF holding_period = NoPeriod THEN Pass(signal, "no_horizon")
    ELSE IF trade_type = NoType
    THEN [Pass(signal, "no_gate") EXCEPT !.holding_period_days = holding_period]
    ELSE
    LET entry == resolve_entry(stock_specific_df, signal.pub_date, signal.pub_time)
        gated == [Pass(signal, "no_entry") EXCEPT
                     !.holding_period_days = holding_period, !.trade_type = trade_type]
    IN
    IF ~entry.found THEN gated
    ELSE
    LET exit_index == exit_index_of(stock_specific_df, entry.entry_index, holding_period)
        entered == [gated EXCEPT !.at = "no_exit",
                       !.entry_index = entry.entry_index,
                       !.entry_date = entry.entry_date,
                       !.entry_price = entry.entry_price,
                       !.exit_index = exit_index]
    IN
    IF ~has_exit(stock_specific_df, exit_index) THEN entered
    ELSE
    LET exit_row == iloc(stock_specific_df, exit_index)
        pct_return == pct_return_of(trade_type, entry.entry_price, exit_row.close)
    IN [entered EXCEPT !.at = "trade",
           !.exit_date = exit_row.trade_date,
           !.exit_price = exit_row.close,
           !.pct_return = pct_return,
           !.is_win = Positive(pct_return)]

\* the loop over factor_df.iterrows(): one pass per row, in the order of the file
run_backtest_final_entry(input) ==
    LET stock_df == read_stock_df(input.stock_df)
        factor_df == read_factor_df(input.factor_df)
    IN [k \in 1..Len(factor_df) |-> Iteration(stock_df, factor_df[k])]

\* results: the rows appended, in order
results(passes) == SelectSeq(passes, LAMBDA p : p.at = "trade")

Backtested(passes) == [called |-> TRUE, passes |-> passes, df |-> results(passes)]

\* Inputs of the backtest
MaxDay == 8

\* the two instruments of the price file; the first has a code with a leading zero
Listed == <<<<0, 1>>, <<1, 0>>>>

Unlisted == <<2, 0>>

\* the days without a bar
Holidays == SUBSET {2, 3}

Shapes_bt == {"rising", "falling", "level"}

Base(code) == 1000 * StrToInt(code)

OpenOf(shape, code, d) ==
    IF shape = "rising" THEN Base(code) + 10 * d
    ELSE IF shape = "falling" THEN Base(code) + 500 - 10 * d
    ELSE Base(code)

CloseOf(shape, code, d) ==
    IF shape = "rising" THEN OpenOf(shape, code, d) + 5
    ELSE IF shape = "falling" THEN OpenOf(shape, code, d) - 5
    ELSE OpenOf(shape, code, d) + 10

Bar(shape, code, d) ==
    [ts_code |-> code, trade_date |-> d,
     open |-> OpenOf(shape, code, d), close |-> CloseOf(shape, code, d)]

\* a price file of both instruments, day by day, oldest or newest day first
PriceFile(last, holidays, shape, ascending) ==
    LET ds == SelectSeq([d \in 1..last |-> d], LAMBDA d : d \notin holidays)
        n == Len(ds)
    IN [i \in 1..(2 * n) |->
          LET k == (i + 1) \div 2
          IN Bar(shape, Listed[1 + (i % 2)], IF ascending THEN ds[k] ELSE ds[n + 1 - k])]

Times == {859, 900, 1200, 1500, 1501}

Horizons == {"short_term", "mid_term", "long_term", "unknown"}

Signal(id, code, d, t, h, sent, event, novel) ==
    [id |-> id, stock_code |-> code, pub_date |-> d, pub_time |-> t, time_horizon |-> h,
     sentiment_score |-> sent, event_driven_score |-> event, novelty_score |-> novel]

\* one signal that passes the gate, of any instrument, day, time and horizon
EntryInputs ==
    {[stock_df |-> PriceFile(MaxDay, hs, shape, asc),
      factor_df |-> <<Signal(1, code, d, t, h, sent, 6, 6)>>] :
        hs \in Holidays, shape \in Shapes_bt, asc \in BOOLEAN,
        code \in {Listed[1], Listed[2], Unlisted}, d \in 0..(MaxDay + 1), t \in Times,
        h \in Horizons, sent \in {4, -4}}

\* one signal with scores at and around the thresholds
GateInputs ==
    {[stock_df |-> PriceFile(MaxDay, {}, "rising", TRUE),
      factor_df |-> <<Signal(1, Listed[2], 1, 859, "short_term", sent, event, novel)>>] :
        sent \in {-4, -3, 0, 3, 4}, event \in {5, 6}, novel \in {5, 6}}

\* two signals: the first enters too late for an exit, or is newer than every bar,
\* or trades; the second trades and has the id of the first or another id
PairInputs ==
    {[stock_df |-> PriceFile(MaxDay, {}, "rising", TRUE),
      factor_df |-> <<Signal(1, Listed[2], d, 859, "short_term", 4, 6, 6),
                      Signal(id, Listed[2], 2, 1200, "short_term", sent, 6, 6)>>] :
        d \in {1, MaxDay, MaxDay + 1}, id \in {1, 2}, sent \in {4, -4}}

\* a price file long enough for the longer holding periods, and a signal of its
\* first days
FarInputs ==
    {[stock_df |-> PriceFile(HORIZON_MAP[h] + 2, hs, "rising", FALSE),
      factor_df |-> <<Signal(1, Listed[2], d, t, h, sent, 6, 6)>>] :
        h \in {"mid_term", "long_term"}, hs \in Holidays, d \in 1..3,
        t \in {859, 1200, 1501}, sent \in {4, -4}}

\* instrument 000001 with three bars (prices in tenths) and a long signal
\* published on the day of the first bar at 08:30
ScenarioInputs ==
    {[stock_df |-> <<[ts_code |-> Listed[1], trade_date |-> 2, open |-> 100, close |-> 105],
                     [ts_code |-> Listed[1], trade_date |-> 3, open |-> 106, close |-> 110],
                     [ts_code |-> Listed[1], trade_date |-> 4, open |-> 111, close |-> 115]>>,
      factor_df |-> <<Signal(1, Listed[1], 2, 830, h, 4, 6, 6)>>] : h \in Horizons}

BacktestInputs ==
    EntryInputs \cup GateInputs \cup PairInputs \cup FarInputs \cup ScenarioInputs

InitBacktest ==
    /\ variant = "stock_scorer"
    /\ dir = <<>>
    /\ InitRest
    /\ arg \in BacktestInputs
    /\ ret = NotCalled

CallBacktest ==
    /\ ~ret.called
    /\ ret' = Backtested(run_backtest_final_entry(arg))
    /\ UNCHANGED <<variant, dir, storeExists, store, failLogExists, failLog, run, pc,
                   processed_codes, files_to_process, file_index, all_data_to_process,
                   pool, successful_results, failed_tasks, all_failed_tasks,
                   interrupted, opened, pauses, stopped, inflight, arg>>

SpecBacktest == InitBacktest /\ [][CallBacktest]_vars

---------------------------------------------------------------------------
\* Claims about the backtest (checked under SpecBacktest)

\* the bars of an instrument in the price file, as the file gives them
BarsOf(code) ==
    {arg.stock_df[i] : i \in {j \in 1..Len(arg.stock_df) : arg.stock_df[j].ts_code = code}}

\* the position of a bar in the ascending sequence of its instrument, from 0
Ordinal(bar) ==
    Cardinality({b \in BarsOf(bar.ts_code) : b.trade_date < bar.trade_date})

Earliest(bars) == CHOOSE b \in bars : \A c \in bars : b.trade_date <= c.trade_date

\* the bars of the instrument of a pass dated on or after, and after, its signal
OnOrAfter(p) == {b \in BarsOf(p.stock_code) : b.trade_date >= p.pub_date}

After(p) == {b \in BarsOf(p.stock_code) : b.trade_date > p.pub_date}

\* the pass came to the entry rules
Resolving(p) == p.at \in {"no_entry", "no_exit", "trade"}

\* the pass has the bar as its entry, at the given price
EntersAt(p, bar, price) ==
    /\ p.at \in {"no_exit", "trade"}
    /\ p.entry_date = bar.trade_date
    /\ p.entry_price = price
    /\ p.entry_index = Ordinal(bar)

\* C21: a signal published before 09:00 enters at the open of the first bar of its
\* instrument dated on or after the publish date, a signal published after 15:00 at
\* the open of the first bar dated after the publish date, and the entry ordinal is
\* the position of that bar in the ascending sequence of the instrument.
C21_ClosedHoursEntry ==
    ret.called =>
        \A k \in 1..Len(ret.passes) :
            LET p == ret.passes[k] IN
            /\ (Resolving(p) /\ p.pub_time < 900 /\ OnOrAfter(p) # {}) =>
                  EntersAt(p, Earliest(OnOrAfter(p)), Earliest(OnOrAfter(p)).open)
            /\ (Resolving(p) /\ p.pub_time > 1500 /\ After(p) # {}) =>
                  EntersAt(p, Earliest(After(p)), Earliest(After(p)).open)

\* C21, its case reached: a signal published before 09:00 on a trading day that is
\* not the first bar of its instrument, entered and traded
C21_Witness ==
    /\ ret.called
    /\ \E k \in 1..Len(ret.passes) :
          /\ ret.passes[k].at = "trade"
          /\ ret.passes[k].pub_time < 900
          /\ ret.passes[k].entry_date = ret.passes[k].pub_date
          /\ ret.passes[k].entry_index > 0

\* the bars of the instrument of a pass dated on the publish date of its signal
SameDay(p) == {b \in BarsOf(p.stock_code) : b.trade_date = p.pub_date}

\* C22: a signal published from 09:00 to 15:00, both ends included, on a trading
\* day of its instrument enters at the bar of that day and at its close; 09:00 is
\* not under the open rule of the early hours and 15:00 is not under the
\* next-bar rule of the late hours.
C22_SessionEntryAtClose ==
    ret.called =>
        \A k \in 1..Len(ret.passes) :
            LET p == ret.passes[k] IN
            (Resolving(p) /\ 900 <= p.pub_time /\ p.pub_time <= 1500 /\ SameDay(p) # {}) =>
                \A b \in SameDay(p) : EntersAt(p, b, b.close)

\* C22, its case reached: a signal published at 15:00 sharp on a trading day,
\* entered at a close that differs from the open of that day, and traded
C22_Witness ==
    /\ ret.called
    /\ \E k \in 1..Len(ret.passes) :
          LET p == ret.passes[k] IN
          /\ p.at = "trade"
          /\ p.pub_time = 1500
          /\ \E b \in SameDay(p) : p.entry_price = b.close /\ b.close # b.open

\* C23: a signal published from 09:00 to 15:00 on a day that is no trading day of
\* its instrument enters at the open of the first bar dated after the publish
\* date, never at a price of the publish date.
C23_SessionOffDayNextOpen ==
    ret.called =>
        \A k \in 1..Len(ret.passes) :
            LET p == ret.passes[k] IN
            (Resolving(p) /\ 900 <= p.pub_time /\ p.pub_time <= 1500
               /\ SameDay(p) = {} /\ After(p) # {}) =>
                /\ EntersAt(p, Earliest(After(p)), Earliest(After(p)).open)
                /\ p.entry_date > p.pub_date

\* C23, its case reached: a signal published at midday of a holiday between two
\* trading days, entered and traded
C23_Witness ==
    /\ ret.called
    /\ \E k \in 1..Len(ret.passes) :
          LET p == ret.passes[k] IN
          /\ p.at = "trade"
          /\ p.pub_time = 1200
          /\ SameDay(p) = {}
          /\ \E b \in BarsOf(p.stock_code) : b.trade_date < p.pub_date

\* the bars the entry rule of a pass chooses among
Qualifying(p) ==
    IF p.pub_time < 900 THEN OnOrAfter(p)
    ELSE IF p.pub_time <= 1500 /\ SameDay(p) # {} THEN SameDay(p)
    ELSE After(p)

\* C24: a signal with no qualifying bar of its instrument has no entry and no
\* trade, and the signals after it are still processed: every signal of the file
\* has its pass, and the trades are those of the other passes.
C24_NoBarNoEntry ==
    ret.called =>
        /\ Len(ret.passes) = Len(arg.factor_df)
        /\ \A k \in 1..Len(ret.passes) :
              LET p == ret.passes[k] IN
              /\ p.signal_id = arg.factor_df[k].id
              /\ (Resolving(p) /\ Qualifying(p) = {}) =>
                    /\ p.at = "no_entry"
                    /\ Len(ret.df) =
                         Cardinality({j \in 1..Len(ret.passes) \ {k} :
                                         ret.passes[j].at = "trade"})

\* C24, its case reached: the first signal is newer than every bar and the signal
\* after it traded
C24_Witness ==
    /\ ret.called
    /\ Len(ret.passes) = 2
    /\ Resolving(ret.passes[1])
    /\ Qualifying(ret.passes[1]) = {}
    /\ ret.passes[2].at = "trade"
    /\ Len(ret.df) = 1

\* C25: the exit bar of a trade with entry ordinal e and holding period H is the
\* bar at ordinal e + H of the same instrument, counted in bars, and the exit
\* price is the close of that bar, whether the entry was at an open or a close.
C25_ExitAfterHBars ==
    ret.called =>
        \A k \in 1..Len(ret.df) :
            LET t == ret.df[k] IN
            \E e, x \in BarsOf(t.stock_code) :
                /\ e.trade_date = t.entry_date
                /\ t.entry_index = Ordinal(e)
                /\ Ordinal(x) = Ordinal(e) + t.holding_period_days
                /\ t.exit_date = x.trade_date
                /\ t.exit_price = x.close

\* C25, its case reached: a trade entered at a close, with a holiday between entry
\* and exit, so that the exit is more calendar days away than H
C25_Witness ==
    /\ ret.called
    /\ \E k \in 1..Len(ret.df) :
          LET t == ret.df[k] IN
          /\ t.exit_date - t.entry_date > t.holding_period_days
          /\ \E e \in BarsOf(t.stock_code) :
                e.trade_date = t.entry_date /\ t.entry_price = e.close /\ e.close # e.open

\* C26: a signal with a resolved entry yields no trade when entry ordinal + H is
\* the length of the bar sequence of its instrument or more, and yields a trade
\* when it is less.
C26_ExitWithinHistory ==
    ret.called =>
        \A k \in 1..Len(ret.passes) :
            LET p == ret.passes[k]
                n == Cardinality(BarsOf(p.stock_code))
            IN p.at \in {"no_exit", "trade"} =>
                  /\ p.entry_index + p.holding_period_days >= n => p.at = "no_exit"
                  /\ p.entry_index + p.holding_period_days < n =>
                        /\ p.at = "trade"
                        /\ \E j \in 1..Len(ret.df) : ret.df[j] = p

\* C26, its case reached: entry ordinal + H is exactly the length, and no trade
C26_Witness ==
    /\ ret.called
    /\ \E k \in 1..Len(ret.passes) :
          LET p == ret.passes[k] IN
          /\ p.at = "no_exit"
          /\ p.entry_index + p.holding_period_days = Cardinality(BarsOf(p.stock_code))

\* C26, the other side reached: the exit bar is the last bar, and a trade
C26_WitnessLastBar ==
    /\ ret.called
    /\ \E k \in 1..Len(ret.passes) :
          LET p == ret.passes[k] IN
          /\ p.at = "trade"
          /\ p.entry_index + p.holding_period_days = Cardinality(BarsOf(p.stock_code)) - 1

\* the quotients a / b and c / d are equal
SameQuotient(a, b, c, d) == a * d = c * b

\* C27: the return of a long trade is (exit - entry) / entry and that of a short
\* trade with the same prices is its negation; is_win holds iff the return is
\* above zero: a long trade wins iff exit > entry, a short trade iff exit < entry,
\* and exit = entry is a loss for both.
C27_ReturnAndWin ==
    ret.called =>
        \A k \in 1..Len(ret.df) :
            LET t == ret.df[k]
                long == [num |-> t.exit_price - t.entry_price, den |-> t.entry_price]
            IN /\ t.trade_type \in {"long", "short"}
               /\ t.trade_type = "long" =>
                     /\ SameQuotient(t.pct_return.num, t.pct_return.den, long.num, long.den)
                     /\ t.is_win <=> t.exit_price > t.entry_price
               /\ t.trade_type = "short" =>
                     /\ SameQuotient(t.pct_return.num, t.pct_return.den, -long.num, long.den)
                     /\ t.is_win <=> t.exit_price < t.entry_price
               /\ t.is_win <=> t.pct_return.num * t.pct_return.den > 0

\* C27, its case reached: a short trade that exits below its entry and wins
C27_Witness ==
    /\ ret.called
    /\ \E k \in 1..Len(ret.df) :
          /\ ret.df[k].trade_type = "short"
          /\ ret.df[k].exit_price < ret.df[k].entry_price
          /\ ret.df[k].is_win

\* C27, the tie reached: a trade that exits at its entry price and does not win
C27_WitnessTie ==
    /\ ret.called
    /\ \E k \in 1..Len(ret.df) :
          ret.df[k].exit_price = ret.df[k].entry_price /\ ~ret.df[k].is_win

\* the two sides of the gate, in tenths: above 0.3 or below -0.3, and both other
\* scores above 0.5
QualifiesLong(s) ==
    s.sentiment_score > 3 /\ s.event_driven_score > 5 /\ s.novelty_score > 5

QualifiesShort(s) ==
    s.sentiment_score < -3 /\ s.event_driven_score > 5 /\ s.novelty_score > 5

\* C28: a signal trades only if it passes the gate, and the gate fixes the trade
\* type: long iff sentiment > 0.3, event_driven > 0.5 and novelty > 0.5, short iff
\* sentiment < -0.3 and the same two; a score equal to its threshold does not
\* qualify, no signal qualifies as both, and a signal that qualifies as neither
\* yields no trade.
C28_GateFixesType ==
    ret.called =>
        \A k \in 1..Len(ret.passes) :
            LET p == ret.passes[k]
                s == arg.factor_df[k]
            IN /\ ~(QualifiesLong(s) /\ QualifiesShort(s))
               /\ p.at \notin {"no_prices", "no_horizon"} =>
                     /\ p.trade_type = "long" <=> QualifiesLong(s)
                     /\ p.trade_type = "short" <=> QualifiesShort(s)
                     /\ (~QualifiesLong(s) /\ ~QualifiesShort(s)) => p.at = "no_gate"
               /\ p.at = "trade" =>
                     /\ QualifiesLong(s) \/ QualifiesShort(s)
                     /\ \E j \in 1..Len(ret.df) :
                           /\ ret.df[j].signal_id = s.id
                           /\ ret.df[j].trade_type = IF QualifiesLong(s) THEN "long"
                                                     ELSE "short"
               /\ p.at = "no_gate" => \A j \in 1..Len(ret.df) : ret.df[j].signal_id # s.id

\* C28, its case reached: a signal whose sentiment equals the threshold and whose
\* other scores are above theirs stopped at the gate
C28_Witness ==
    /\ ret.called
    /\ \E k \in 1..Len(ret.passes) :
          /\ ret.passes[k].at = "no_gate"
          /\ arg.factor_df[k].sentiment_score = 3
          /\ arg.factor_df[k].event_driven_score > 5
          /\ arg.factor_df[k].novelty_score > 5

\* C29: at most one trade is emitted for each signal id, and every emitted trade
\* carries the id and the stock code of a signal of the input.
C29_OneTradePerSignalId ==
    ret.called =>
        /\ \A i, j \in 1..Len(ret.df) :
              ret.df[i].signal_id = ret.df[j].signal_id => i = j
        /\ \A i \in 1..Len(ret.df) :
              \E k \in 1..Len(arg.factor_df) :
                  /\ arg.factor_df[k].id = ret.df[i].signal_id
                  /\ arg.factor_df[k].stock_code = ret.df[i].stock_code

\* C30: with instrument 000001 having the bars of days 2, 3 and 4 (open 10.0 close
\* 10.5, open 10.6 close 11.0, open 11.1 close 11.5) and a long signal published
\* on day 2 at 08:30, the backtest yields exactly one trade: entry at the open of
\* day 2 (10.0, ordinal 0), exit at the close of the bar at ordinal 2, day 4
\* (11.5), return 0.15.
C30_Scenario ==
    (ret.called /\ arg \in ScenarioInputs) =>
        /\ Len(ret.df) = 1
        /\ ret.df[1].trade_type = "long"
        /\ ret.df[1].entry_index = 0
        /\ ret.df[1].entry_date = 2
        /\ ret.df[1].entry_price = 100
        /\ ret.df[1].exit_date = 4
        /\ ret.df[1].exit_price = 115
        /\ SameQuotient(ret.df[1].pct_return.num, ret.df[1].pct_return.den, 15, 100)

---------------------------------------------------------------------------
\* Claims about the pool and the runs, continued

\* the rows and the failure entries a step adds
NewRows == SelectSeq(SubSeq(store', Len(store) + 1, Len(store')), LAMBDA l : l.kind = "row")

NewFailures == SubSeq(all_failed_tasks', Len(all_failed_tasks) + 1, Len(all_failed_tasks'))

\* the row carries the identity of task i and the reply of the last call made for it
OwnRow(i, row) ==
    /\ all_data_to_process[i].type = "object"
    /\ row.id = all_data_to_process[i].rec.id
    /\ row.stock_code = all_data_to_process[i].rec.stock_code
    /\ pool[i].result.status = "success"
    /\ pool[i].last.kind = "reply"
    /\ row.data = pool[i].last.reply

\* the failure entry names task i and holds what its own future ended in
OwnFailure(i, entry) ==
    /\ entry.id = all_data_to_process[i].rec.id
    /\ pool[i].result.status \in {"failed", "raised", "success"}
    /\ entry.error_details = IF pool[i].result.status = "failed" THEN pool[i].result
                             ELSE ExceptionDetails
    /\ pool[i].result.status = "failed" =>
          \/ pool[i].result = MaxRetriesExceeded
          \/ pool[i].result.content = pool[i].last.reply

\* C31: under every completion order of the tasks of a file, each row appended to
\* the store has the identity of a task of the file and the score returned for
\* that task, and each failure entry added names a task that failed and holds
\* the failure of that task.
C31_OwnScoreOwnTask ==
    [][/\ \A k \in 1..Len(NewRows) : \E i \in Tasks : OwnRow(i, NewRows[k])
       /\ \A k \in 1..Len(NewFailures) : \E i \in Tasks : OwnFailure(i, NewFailures[k])]_vars

\* C31, its case reached: two rows of one file with different scores lie in the
\* store in the reverse of the order of their records, next to a failure entry
C31_Witness ==
    /\ all_failed_tasks # <<>>
    /\ \E k \in 1..(Len(store) - 1) :
          /\ store[k].kind = "row"
          /\ store[k + 1].kind = "row"
          /\ store[k].stock_code = store[k + 1].stock_code
          /\ store[k].id > store[k + 1].id
          /\ store[k].data # store[k + 1].data

\* the tasks of the pool whose future ended in the given status
WithStatus(status) == {i \in Tasks : pool[i].result.status = status}

\* the step ends the processing of a file with its results persisted
FileProcessed ==
    /\ pc = "score"
    /\ PoolDrained
    /\ pc' \in {"load", "pause", "flush"}

\* every task has one result of the three kinds, the rows added are those of the
\* success tasks, the failure entries added those of the failed tasks
Conserved ==
    /\ \A i \in Tasks : pool[i].result.status \in {"success", "failed", "skipped"}
    /\ Len(NewRows) = Cardinality(WithStatus("success"))
    /\ Len(NewFailures) = Cardinality(WithStatus("failed"))
    /\ \A i \in Tasks :
          /\ pool[i].result.status = "success" <=>
                \E k \in 1..Len(NewRows) : NewRows[k].id = all_data_to_process[i].rec.id
          /\ pool[i].result.status = "failed" <=>
                \E k \in 1..Len(NewFailures) :
                    NewFailures[k].id = all_data_to_process[i].rec.id
    /\ Len(NewRows) + Len(NewFailures) + Cardinality(WithStatus("skipped"))
          = Len(all_data_to_process)

\* C32: when a file has been processed, every task of it has exactly one result,
\* success, failed or skipped; the rows appended are exactly its success tasks,
\* the failure entries added exactly its failed tasks, a skipped task is in
\* neither, so rows + failures + skipped is the number of records of the file.
C32_OutcomeConservation == [][FileProcessed => Conserved]_vars

---------------------------------------------------------------------------
\* Claims about the backtest, continued

\* C33: for every trade the entry bar is dated on or after the publish date of
\* the signal and is a bar of the signal's own instrument, and the exit bar is a
\* bar of that instrument at a greater ordinal and so of a later date.
C33_NoLookAhead ==
    ret.called =>
        \A k \in 1..Len(ret.passes) :
            LET p == ret.passes[k]
                own == BarsOf(arg.factor_df[k].stock_code)
            IN p.at = "trade" =>
                  /\ p.entry_date >= arg.factor_df[k].pub_date
                  /\ \E e, x \in own :
                        /\ e.trade_date = p.entry_date
                        /\ p.entry_price \in {e.open, e.close}
                        /\ p.entry_index = Ordinal(e)
                        /\ x.trade_date = p.exit_date
                        /\ p.exit_price = x.close
                        /\ p.exit_index = Ordinal(x)
                        /\ Ordinal(x) > Ordinal(e)
                        /\ x.trade_date > e.trade_date

\* C33, its case reached: the price file lists the newest day first, holds another
\* instrument as well, and a signal traded with its entry on its publish date
C33_Witness ==
    /\ ret.called
    /\ arg.stock_df[1].trade_date > arg.stock_df[Len(arg.stock_df)].trade_date
    /\ \E i \in 1..Len(arg.stock_df) : arg.stock_df[i].ts_code # arg.factor_df[1].stock_code
    /\ \E k \in 1..Len(ret.df) : ret.df[k].entry_date = ret.df[k].pub_date

---------------------------------------------------------------------------
\* Runs that are left to themselves: every collaborator call returns, the
\* operator answers every pause, and nobody presses Ctrl+C outside a pause.
\* Every thread that can take a step takes one in the end.

NextLive ==
    \/ StartRun
    \/ LoadFile
    \/ \E i \in Tasks : WorkerStart(i)
    \/ \E i \in Tasks : WorkerAttempt(i)
    \/ Persist
    \/ Pause
    \/ Finish
    \/ Unwind

SpecLive == Init /\ [][NextLive]_vars /\ WF_vars(NextLive)

\* a run is in its file loop
InFileLoop == pc \in {"load", "score", "pause", "flush", "raise"}

\* the files are taken in list order, each once: a load within a run is of the
\* position after every position loaded before, it follows the start of the run, the persisting
\* of the file before or its pause, and scoring follows the load
InListOrder ==
    /\ (opened' # opened /\ opened' # {}) =>
          /\ pc = "load"
          /\ opened' = opened \cup {file_index + 1}
          /\ \A j \in opened : j < file_index + 1
          /\ file_index + 1 <= Len(files_to_process)
    /\ (pc # "load" /\ pc' = "load") => pc \in {"idle", "done", "aborted", "score", "pause"}
    /\ (pc # "score" /\ pc' = "score") => pc = "load"
    /\ (pc # "pause" /\ pc' = "pause") => pc = "score"

\* C34: every task ends with a result after at most MAX_RETRIES calls, every run
\* that entered its file loop reaches Done (the run itself, not a later one), and
\* the files of the list are visited in list order, each at most once, as Load,
\* Score, Persist, MaybePause.
C34_RunsReachDone ==
    /\ [][InListOrder]_vars
    /\ [](\A i \in Tasks : pool[i].calls <= MAX_RETRIES)
    /\ \A i \in 1..MaxRecs :
          (i \in Tasks /\ pool[i].st \in {"queued", "running"}) ~>
              (i \notin Tasks \/ pool[i].st = "done")
    /\ \A r \in 1..MaxRuns : (run = r /\ InFileLoop) ~> (run = r /\ pc = "done")

---------------------------------------------------------------------------
\* the step with which a run returns: the code after the file loop, or an
\* exception or interrupt unwinding out of it
RunReturns == pc \in {"flush", "raise", "score"} /\ pc' \in {"done", "aborted"}

\* the failures of the run are in the log and no row of the store is lost
FlushedAndKept ==
    /\ all_failed_tasks # <<>> => (failLogExists' /\ failLog' = all_failed_tasks)
    /\ IsPrefix(store, store')

\* C35: whenever the file loop of a run ends, normally, by a quit at a pause, or
\* by an exception or interrupt that escapes the processing of a file, the failed
\* tasks accumulated in the run are in the failure log when the run returns, and
\* the store still holds every row appended before.
C35_FailuresFlushedAtLoopEnd == [][RunReturns => FlushedAndKept]_vars

====
